---- MODULE Spec2Model ----
(***************************************************************************)
(* JSON Path Expander: the jsonPathExpander.insertPathAndValue command of  *)
(* src/src/extension.ts (and its earlier JSON-only form, unnamed/part_000) *)
(* with the two pure functions it relies on, parsePath and                 *)
(* findJsonVariables.                                                      *)
(*                                                                         *)
(* Text is a sequence of one-character strings.  Offsets are 0-based and   *)
(* ranges half-open, as in JavaScript: the character at offset i of s is   *)
(* s[i + 1].                                                               *)
(***************************************************************************)
EXTENDS Integers, Sequences, FiniteSets, TLC

VARIABLES
    mode,          \* which specification drives the state: "cmd", "parse"
    pin,           \* parsePath: the input string
    pout,          \* parsePath: the returned Path
    pdone,         \* parsePath: has returned
    \* ---- the host ----
    version,       \* the handler: "extension" (src/src/extension.ts) or
                   \* "part_000" (unnamed/part_000)
    hasEditor,     \* vscode.window.activeTextEditor is set
    languageId,    \* doc.languageId
    source,        \* the document's text when the command is invoked
    doc,           \* the document's text now
    \* ---- the handler's locals ----
    pc,            \* where the handler is suspended
    originalText, text, prefix, suffix, isWrapped,
    variables,     \* what findJsonVariables returned
    selected,      \* the position in `variables` of selectedVar, 0: none
    pathInput, valueInput,   \* [given, value]: not given is undefined
    path, newText,
    \* ---- what the user saw and did ----
    picked,        \* the position of the entry the user picked, 0: none
    dismissed,     \* the user dismissed a prompt, or answered "No"
    errors,        \* the error messages shown, in order
    editCalls,     \* the number of calls of editor.edit
    editApplied,   \* "none", or what editor.edit resolved to: "yes", "no"
    revealed,      \* tryRevealPath moved the selection
    statusShown    \* the success notice was shown

parseVars == <<pin, pout, pdone>>
hostVars == <<version, hasEditor, languageId, source>>
localVars == <<originalText, text, prefix, suffix, isWrapped, variables,
               selected, pathInput, valueInput, path, newText>>
seenVars == <<picked, dismissed, errors, editCalls, editApplied, revealed,
              statusShown>>
cmdVars == <<hostVars, doc, pc, localVars, seenVars>>
vars == <<mode, parseVars, cmdVars>>

(***************************************************************************)
(* Bounds of the model.                                                    *)
(***************************************************************************)
MaxPathLen == 5
MaxSrcLen == 5

(***************************************************************************)
(* Characters and JavaScript string primitives.                            *)
(***************************************************************************)
DQ == "\""
SQ == "'"

\* \s of a JavaScript regular expression and the whitespace of
\* String.prototype.trim, for the ASCII whitespace characters.
IsSpace(c) == c \in {" ", "\n", "\t", "\r", "\f"}

\* \d
IsDigit(c) == c \in {"0", "1", "2", "3", "4", "5", "6", "7", "8", "9"}

\* \w
IsWord(c) ==
    \/ IsDigit(c)
    \/ c = "_"
    \/ c \in {"a", "b", "c", "d", "e", "f", "g", "h", "i", "j", "k", "l", "m",
              "n", "o", "p", "q", "r", "s", "t", "u", "v", "w", "x", "y", "z"}
    \/ c \in {"A", "B", "C", "D", "E", "F", "G", "H", "I", "J", "K", "L", "M",
              "N", "O", "P", "Q", "R", "S", "T", "U", "V", "W", "X", "Y", "Z"}

\* s.slice(a, b) for 0 <= a, b
Slice(s, a, b) ==
    LET e == IF b > Len(s) THEN Len(s) ELSE b
    IN  IF a >= e THEN <<>> ELSE SubSeq(s, a + 1, e)

\* s.slice(a)
SliceFrom(s, a) == Slice(s, a, Len(s))

\* s.indexOf(c, from) for a one-character c: the least offset >= from
\* holding c, or -1
IndexOfChar(s, c, from) ==
    LET hits == {i \in from..(Len(s) - 1) : s[i + 1] = c}
    IN  IF hits = {} THEN -1 ELSE CHOOSE i \in hits : \A j \in hits : i <= j

\* s.trim()
Trim(s) ==
    LET keep == {i \in 1..Len(s) : ~IsSpace(s[i])}
    IN  IF keep = {} THEN <<>>
        ELSE LET lo == CHOOSE i \in keep : \A j \in keep : i <= j
                 hi == CHOOSE i \in keep : \A j \in keep : j <= i
             IN  SubSeq(s, lo, hi)

\* /^\d+$/.test(s)
AllDigits(s) == Len(s) > 0 /\ \A i \in 1..Len(s) : IsDigit(s[i])

Digits == <<"0", "1", "2", "3", "4", "5", "6", "7", "8", "9">>

DigitValue(c) == (CHOOSE i \in 1..10 : Digits[i] = c) - 1

\* Number(s) for a string of decimal digits
RECURSIVE NumberOf(_)
NumberOf(s) ==
    IF Len(s) = 0 THEN 0
    ELSE 10 * NumberOf(SubSeq(s, 1, Len(s) - 1)) + DigitValue(s[Len(s)])

\* String(n) for a non-negative integer n
RECURSIVE DigitsOf(_)
DigitsOf(n) ==
    IF n < 10 THEN <<Digits[n + 1]>>
    ELSE Append(DigitsOf(n \div 10), Digits[(n % 10) + 1])

\* s.startsWith(c), s.endsWith(c) for a one-character c
StartsWith(s, c) == Len(s) >= 1 /\ s[1] = c
EndsWith(s, c) == Len(s) >= 1 /\ s[Len(s)] = c

(***************************************************************************)
(* parsePath.  An accessor is a key (a string) or an index (a number).     *)
(***************************************************************************)
KeyAcc(k) == [kind |-> "key", key |-> k, index |-> 0]
IndexAcc(n) == [kind |-> "index", key |-> <<>>, index |-> n]

\* What a bracket segment pushes, from its trimmed content.
\* A variant that keeps the quotes of a quoted key.
BracketAccessorKeepQuotes(inside) ==
    IF AllDigits(inside) THEN IndexAcc(NumberOf(inside)) ELSE KeyAcc(inside)

BracketAccessor(inside) ==
    IF AllDigits(inside) THEN IndexAcc(NumberOf(inside))
    ELSE IF \/ StartsWith(inside, DQ) /\ EndsWith(inside, DQ)
            \/ StartsWith(inside, SQ) /\ EndsWith(inside, SQ)
         THEN KeyAcc(Slice(inside, 1, Len(inside) - 1))
         ELSE KeyAcc(inside)

\* What parsePath returns when a "[" has no "]" after it.
\* A variant that returns what was parsed so far.
UnclosedResultPartial(parts) == parts

UnclosedResult(parts) == <<>>

\* The end of the bare run starting at i: the least j >= i at the end of
\* the input or holding "." or "[".
RECURSIVE BareRunEnd(_, _)
BareRunEnd(input, j) ==
    IF j < Len(input) /\ input[j + 1] # "." /\ input[j + 1] # "["
    THEN BareRunEnd(input, j + 1)
    ELSE j

\* The while loop of parsePath, from offset i with `parts` pushed so far.
RECURSIVE ParseLoop(_, _, _)
ParseLoop(input, i, parts) ==
    IF ~(i < Len(input)) THEN parts
    ELSE IF input[i + 1] = "." THEN ParseLoop(input, i + 1, parts)
    ELSE IF input[i + 1] = "[" THEN
        LET close == IndexOfChar(input, "]", i + 1) IN
        IF close = -1 THEN UnclosedResult(parts)
        ELSE LET inside == Trim(Slice(input, i + 1, close))
                 next == close + 1
                 after == IF next < Len(input) /\ input[next + 1] = "."
                          THEN next + 1 ELSE next
             IN  ParseLoop(input, after, Append(parts, BracketAccessor(inside)))
    ELSE
        LET j == BareRunEnd(input, i)
            token == Trim(Slice(input, i, j))
        IN  ParseLoop(input, j,
                      IF Len(token) > 0 THEN Append(parts, KeyAcc(token))
                      ELSE parts)

parsePath(input) == ParseLoop(input, 0, <<>>)

(***************************************************************************)
(* findJsonVariables.  The regular expression                              *)
(*   (?:export\s+)?(?:const|let|var\s+)?(\w+)?\s*=\s*({[\s\S]*?})(?:;|$)  *)
(*   |({[\s\S]*?})(?:;|$)                                                  *)
(* is matched as a backtracking engine matches it: leftmost start, the     *)
(* first alternative before the second, optional groups taken before they  *)
(* are skipped, greedy runs longest first, the lazy run shortest first.    *)
(* An unmatched group is the empty string, which `||` treats as undefined  *)
(* is treated.                                                             *)
(***************************************************************************)
\* The end of the run of whitespace (\s*) starting at offset i.
RECURSIVE SkipSpaces(_, _)
SkipSpaces(s, i) ==
    IF i < Len(s) /\ IsSpace(s[i + 1]) THEN SkipSpaces(s, i + 1) ELSE i

\* The end of the run of word characters (\w*) starting at offset i.
RECURSIVE SkipWord(_, _)
SkipWord(s, i) ==
    IF i < Len(s) /\ IsWord(s[i + 1]) THEN SkipWord(s, i + 1) ELSE i

\* The literal w occurs in s at offset i.
LiteralAt(s, i, w) == i + Len(w) <= Len(s) /\ Slice(s, i, i + Len(w)) = w

NoMatch == [found |-> FALSE, index |-> 0, all |-> <<>>,
            g1 |-> <<>>, g2 |-> <<>>, g3 |-> <<>>]

\* ({[\s\S]*?})(?:;|$) at offset r: the "{" at r, up to the first "}" that
\* a ";" or the end of the input follows.  The result gives the offset
\* after the "}" and the offset after the whole match.
ObjectAt(s, r) ==
    IF ~(r < Len(s) /\ s[r + 1] = "{") THEN [found |-> FALSE, objEnd |-> 0, end |-> 0]
    ELSE LET ends == {e \in (r + 1)..(Len(s) - 1) :
                         /\ s[e + 1] = "}"
                         /\ (e + 1 = Len(s) \/ s[e + 2] = ";")}
         IN  IF ends = {} THEN [found |-> FALSE, objEnd |-> 0, end |-> 0]
             ELSE LET e == CHOOSE x \in ends : \A y \in ends : x <= y
                  IN  [found |-> TRUE, objEnd |-> e + 1,
                       end |-> IF e + 1 < Len(s) THEN e + 2 ELSE e + 1]

\* The first match of a sequence of attempts, or null.
FirstFound(attempts) ==
    LET ok == {i \in 1..Len(attempts) : attempts[i].found}
    IN  IF ok = {} THEN NoMatch
        ELSE attempts[CHOOSE i \in ok : \A j \in ok : i <= j]

\* ({[\s\S]*?})(?:;|$) as the end of the first alternative: the match
\* began at offset p, (\w+)? took the offsets k to w, and obj is the object
\* found at offset r.
AssignedObject(s, p, k, w, r, obj) ==
    IF ~obj.found THEN NoMatch
    ELSE [found |-> TRUE, index |-> p, all |-> Slice(s, p, obj.end),
          g1 |-> Slice(s, k, w), g2 |-> Slice(s, r, obj.objEnd), g3 |-> <<>>]

\* =\s*({[\s\S]*?})(?:;|$) at offset e.  The run \s* is taken whole: a
\* shorter one leaves whitespace where "{" must be.
EqualsAndObject(s, p, k, w, e, r) ==
    IF ~(e < Len(s) /\ s[e + 1] = "=") THEN NoMatch
    ELSE AssignedObject(s, p, k, w, r, ObjectAt(s, r))

\* \s*=\s*({[\s\S]*?})(?:;|$) at offset w.  The run \s* is taken whole.
SpacesEqualsObject(s, p, k, w, e) ==
    EqualsAndObject(s, p, k, w, e, SkipSpaces(s, e + 1))

\* (\w+)?\s*=\s*({[\s\S]*?})(?:;|$) at offset k, for a match that began at
\* offset p.  \w+ is taken whole, or skipped where no word character
\* stands: a shorter run leaves a word character where \s*= must match.
AssignmentFrom(s, p, k, w) ==
    SpacesEqualsObject(s, p, k, w, SkipSpaces(s, w))

\* The offsets at which (?:const|let|var\s+)? can end when it starts at
\* k1, in the order the engine tries them.
KeywordEnds(s, k1) ==
    (IF LiteralAt(s, k1, <<"c", "o", "n", "s", "t">>) THEN <<k1 + 5>> ELSE <<>>)
    \o (IF LiteralAt(s, k1, <<"l", "e", "t">>) THEN <<k1 + 3>> ELSE <<>>)
    \o (IF /\ LiteralAt(s, k1, <<"v", "a", "r">>)
           /\ SkipSpaces(s, k1 + 3) > k1 + 3
        THEN <<SkipSpaces(s, k1 + 3)>> ELSE <<>>)
    \o <<k1>>

\* The offsets at which (?:export\s+)?(?:const|let|var\s+)? can end when
\* it starts at p, in the order the engine tries them.
PrefixEnds(s, p) ==
    (IF /\ LiteralAt(s, p, <<"e", "x", "p", "o", "r", "t">>)
        /\ SkipSpaces(s, p + 6) > p + 6
     THEN KeywordEnds(s, SkipSpaces(s, p + 6)) ELSE <<>>)
    \o KeywordEnds(s, p)

\* The first alternative at offset p, tried from each prefix end ks[i].
AssignmentAttempts(s, p, ks) ==
    [i \in 1..Len(ks) |-> AssignmentFrom(s, p, ks[i], SkipWord(s, ks[i]))]

FirstAlternativeAt(s, p) == FirstFound(AssignmentAttempts(s, p, PrefixEnds(s, p)))

\* The second alternative at offset p, where obj is the object found there.
BareObject(s, p, obj) ==
    IF ~obj.found THEN NoMatch
    ELSE [found |-> TRUE, index |-> p, all |-> Slice(s, p, obj.end),
          g1 |-> <<>>, g2 |-> <<>>, g3 |-> Slice(s, p, obj.objEnd)]

SecondAlternativeAt(s, p) == BareObject(s, p, ObjectAt(s, p))

MatchAt(s, p) == FirstFound(<<FirstAlternativeAt(s, p), SecondAlternativeAt(s, p)>>)

\* regex.exec(text) with the g flag and regex.lastIndex = lastIndex: the
\* match at the least start offset >= lastIndex, or null.
Exec(s, lastIndex) ==
    FirstFound([i \in 1..(Len(s) - lastIndex) |-> MatchAt(s, lastIndex + i - 1)])

\* hay.indexOf(needle): the least offset at which needle occurs, or -1.
IndexOf(hay, needle) ==
    LET hits == {i \in 0..(Len(hay) - Len(needle)) : LiteralAt(hay, i, needle)}
    IN  IF hits = {} THEN -1 ELSE CHOOSE i \in hits : \A j \in hits : i <= j

\* a || b on strings
OrElse(a, b) == IF a # <<>> THEN a ELSE b

\* `Object_${n}`
ObjectName(n) == <<"O", "b", "j", "e", "c", "t", "_">> \o DigitsOf(n)

\* parseTree(json) throws.  jsonc-parser's parseTree is fault tolerant: it
\* reports syntax errors through its optional `errors` argument, which the
\* call does not pass, and returns whatever tree it could build.
ParseTreeThrows(json) == FALSE

\* The offset the candidate's text is recorded at.
\* A variant that takes the start of the whole match.
JsonStartAtMatch(match, json) == match.index

JsonStart(match, json) == match.index + IndexOf(match.all, json)

\* The body of the while loop of findJsonVariables for a match: the
\* candidate is pushed unless parseTree throws.
Push(vs, match, name, json, jsonStart) ==
    IF ParseTreeThrows(json) THEN vs
    ELSE Append(vs, [name |-> name, json |-> json, jsonStart |-> jsonStart,
                     jsonEnd |-> jsonStart + Len(json)])

PushMatch(vs, match, json) ==
    Push(vs, match, OrElse(match.g1, ObjectName(Len(vs) + 1)), json,
         JsonStart(match, json))

\* The while loop of findJsonVariables, where match is what regex.exec
\* returned and vs the candidates pushed so far.
RECURSIVE FindLoop(_, _, _)
FindLoop(src, vs, match) ==
    IF ~match.found THEN vs
    ELSE FindLoop(src, PushMatch(vs, match, OrElse(match.g2, match.g3)),
                  Exec(src, match.index + Len(match.all)))

findJsonVariables(src) == FindLoop(src, <<>>, Exec(src, 0))

(***************************************************************************)
(* Text that may hold the result of an edit.  modify and applyEdits are    *)
(* jsonc-parser's: the text applyEdits(text, modify(text, path, value,     *)
(* options)) is kept as the term of its arguments, and a text is           *)
(* pre, then at most one such term, then post.                             *)
(***************************************************************************)
Raw(s) == [pre |-> s, mid |-> <<>>, post |-> <<>>]

\* `${a}${t}${b}` for strings a, b and a text t
Wrap(a, t, b) ==
    IF t.mid = <<>> THEN Raw(a \o t.pre \o b)
    ELSE [pre |-> a \o t.pre, mid |-> t.mid, post |-> t.post \o b]

\* modify(text, path, value, { formattingOptions })
Modify(txt, p, value, formatting) ==
    [text |-> txt, path |-> p, value |-> value, formatting |-> formatting]

\* applyEdits(text, edits), for the edits modify returned for the same text
ApplyEdits(txt, edits) == [pre |-> <<>>, mid |-> <<edits>>, post |-> <<>>]

\* doc.getText()
GetText(d) == d.pre

\* builder.replace(new vscode.Range(positionAt(start), positionAt(end)), t)
\* on a document holding the string d
ReplaceRange(d, range, t) ==
    Wrap(Slice(d, 0, range.start), t, SliceFrom(d, range.end))

(***************************************************************************)
(* The steps of the command handler.                                       *)
(***************************************************************************)
Undefined == [given |-> FALSE, value |-> <<>>]
Given(v) == [given |-> TRUE, value |-> v]

\* languageId needs no confirmation
RecognisedLanguage(ver, lang) ==
    IF ver = "extension"
    THEN lang \in {"json", "jsonc", "javascript", "typescript"}
    ELSE lang \in {"json", "jsonc"}

\* the embedded-object flow is taken
IsSourceLanguage(ver, lang) ==
    ver = "extension" /\ lang \in {"javascript", "typescript"}

\* `if (proceed !== "Yes") return;`
\* A variant that continues whatever the answer.
ProceedAbortsNever(proceed) == FALSE

ProceedAborts(proceed) == proceed # "Yes"

\* `originalText.trim().length === 0 ? "{}" : originalText`
\* A variant that keeps the original text.
InitialTextKept(original) == original

InitialText(original) ==
    IF Len(Trim(original)) = 0 THEN <<"{", "}">> ELSE original

\* `if (!pathInput) return;`: undefined or the empty string
PathInputMissing(input) == ~input.given \/ input.value = <<>>

\* `if (!path.length)`
\* A variant that accepts every path.
PathRejectedNever(p) == FALSE

PathRejected(p) == Len(p) = 0

\* JSON.parse(raw) succeeds: over the characters of ValueInputs, for a
\* JSON number without a leading zero.
IsJsonNumber(raw) ==
    AllDigits(raw) /\ (Len(raw) = 1 \/ raw[1] # "0")

\* coerceValue
coerceValue(raw) ==
    IF IsJsonNumber(raw)
    THEN [type |-> "number", number |-> NumberOf(raw), string |-> <<>>]
    ELSE [type |-> "string", number |-> 0, string |-> raw]

\* detectFormattingOptions, for the editor's insertSpaces: true, tabSize: 2
detectFormattingOptions == [insertSpaces |-> TRUE, tabSize |-> 2]

\* The range the edit replaces.
FullRange(original) == [start |-> 0, end |-> Len(original)]

\* variables.find((v) => v.name === variableName): the position of the
\* first candidate of that name, 0 if there is none
FindByName(vs, name) ==
    LET hits == {i \in 1..Len(vs) : vs[i].name = name}
    IN  IF hits = {} THEN 0 ELSE CHOOSE i \in hits : \A j \in hits : i <= j

CmdIdle ==
    /\ version = "extension"
    /\ hasEditor = FALSE
    /\ languageId = "json"
    /\ source = <<>>
    /\ doc = Raw(<<>>)
    /\ pc = "idle"
    /\ originalText = <<>>
    /\ text = <<>>
    /\ prefix = <<>>
    /\ suffix = <<>>
    /\ isWrapped = FALSE
    /\ variables = <<>>
    /\ selected = 0
    /\ pathInput = Undefined
    /\ valueInput = Undefined
    /\ path = <<>>
    /\ newText = Raw(<<>>)
    /\ picked = 0
    /\ dismissed = FALSE
    /\ errors = <<>>
    /\ editCalls = 0
    /\ editApplied = "none"
    /\ revealed = FALSE
    /\ statusShown = FALSE

\* Every string of at most n characters of the alphabet.
RECURSIVE StringsUpTo(_, _)
StringsUpTo(alphabet, n) ==
    IF n = 0 THEN {<<>>}
    ELSE LET shorter == StringsUpTo(alphabet, n - 1)
         IN  shorter \cup {Append(s, c) : s \in {t \in shorter : Len(t) = n - 1},
                                           c \in alphabet}

(***************************************************************************)
(* The command's inputs.                                                   *)
(***************************************************************************)
Versions == {"extension", "part_000"}

Languages == {"json", "jsonc", "javascript", "typescript", "plaintext"}

SourceAlphabet == {"a", "=", "{", "}", ";", " "}

\* Source files with embedded objects.
LongSources ==
    { \* const cfg = {"x":1};\nconsole.log(cfg);
      <<"c", "o", "n", "s", "t", " ", "c", "f", "g", " ", "=", " ",
        "{", DQ, "x", DQ, ":", "1", "}", ";", "\n",
        "c", "o", "n", "s", "o", "l", "e", ".", "l", "o", "g", "(",
        "c", "f", "g", ")", ";">>,
      \* a={};a={"x":1}
      <<"a", "=", "{", "}", ";", "a", "=", "{", DQ, "x", DQ, ":", "1", "}">>,
      \* let a = {};\nvar b={a};
      <<"l", "e", "t", " ", "a", " ", "=", " ", "{", "}", ";", "\n",
        "v", "a", "r", " ", "b", "=", "{", "a", "}", ";">>,
      \* export const a = {"x":{}};{}
      <<"e", "x", "p", "o", "r", "t", " ", "c", "o", "n", "s", "t", " ",
        "a", " ", "=", " ", "{", DQ, "x", DQ, ":", "{", "}", "}", ";",
        "{", "}">>,
      \* Object_2={};{ }
      <<"O", "b", "j", "e", "c", "t", "_", "2", "=", "{", "}", ";",
        "{", " ", "}">>,
      \* f = () => { g(); }
      <<"f", " ", "=", " ", "(", ")", " ", "=", ">", " ", "{", " ",
        "g", "(", ")", ";", " ", "}">> }

SourceTexts == StringsUpTo(SourceAlphabet, MaxSrcLen) \cup LongSources

\* Documents of the other languages.
DataTexts ==
    { <<>>, <<" ">>, <<" ", "\n", " ">>, <<"{", "}">>,
      <<"{", DQ, "a", DQ, ":", "1", "}">>, <<"a", "=", "{", "}">> }

Documents(ver, lang) ==
    IF IsSourceLanguage(ver, lang) THEN SourceTexts ELSE DataTexts

\* What the user may type at the path prompt and at the value prompt.
PathChoices ==
    { <<>>, <<".", ".">>, <<"a", "[">>, <<"x">>,
      <<"a", ".", "b", "[", "0", "]">> }

ValueChoices == { <<>>, <<"2">>, <<"0", "1">>, <<"x">> }

Answers(choices) == {Undefined} \cup {Given(c) : c \in choices}

Init ==
    /\ mode = "cmd"
    /\ pin = <<>>
    /\ pout = <<>>
    /\ pdone = FALSE
    /\ version \in Versions
    /\ hasEditor \in BOOLEAN
    /\ languageId \in (IF hasEditor THEN Languages ELSE {"json"})
    /\ source \in (IF hasEditor THEN Documents(version, languageId) ELSE {<<>>})
    /\ doc = Raw(source)
    /\ pc = "start"
    /\ originalText = <<>>
    /\ text = <<>>
    /\ prefix = <<>>
    /\ suffix = <<>>
    /\ isWrapped = FALSE
    /\ variables = <<>>
    /\ selected = 0
    /\ pathInput = Undefined
    /\ valueInput = Undefined
    /\ path = <<>>
    /\ newText = Raw(<<>>)
    /\ picked = 0
    /\ dismissed = FALSE
    /\ errors = <<>>
    /\ editCalls = 0
    /\ editApplied = "none"
    /\ revealed = FALSE
    /\ statusShown = FALSE

(***************************************************************************)
(* The handler, one action for each stretch between two awaits.            *)
(***************************************************************************)
\* From the language check to the next await, for the document text orig
\* and the candidates vs found in it: in a source language the handler
\* stops if there are none and asks for one otherwise.  part_000 reads
\* the text later, after the path is parsed.
FlowStart(orig, vs) ==
    [ originalText |-> IF version = "extension" THEN orig ELSE <<>>,
      text |-> IF version = "extension" THEN InitialText(orig) ELSE <<>>,
      variables |-> vs,
      errors |-> IF IsSourceLanguage(version, languageId) /\ Len(vs) = 0
                 THEN <<"No valid JSON object variables found in the file.">>
                 ELSE <<>>,
      pc |-> IF ~IsSourceLanguage(version, languageId) THEN "pathPrompt"
             ELSE IF Len(vs) = 0 THEN "done" ELSE "pickVariable" ]

AfterLanguageCheck ==
    FlowStart(GetText(doc),
              IF IsSourceLanguage(version, languageId)
              THEN findJsonVariables(GetText(doc)) ELSE <<>>)

\* The command is invoked: the editor and the language are checked.
InvokeThen(go) ==
    /\ mode = "cmd"
    /\ pc = "start"
    /\ LET ok == hasEditor /\ RecognisedLanguage(version, languageId)
       IN  /\ originalText' = IF ok THEN go.originalText ELSE originalText
           /\ text' = IF ok THEN go.text ELSE text
           /\ variables' = IF ok THEN go.variables ELSE variables
           /\ errors' = IF ~hasEditor
                        THEN <<"Open a JSON/JSONC/JS/TS file first.">>
                        ELSE IF ok THEN go.errors ELSE errors
           /\ pc' = IF ~hasEditor THEN "done"
                    ELSE IF ok THEN go.pc ELSE "confirmLanguage"
    /\ UNCHANGED <<mode, parseVars, hostVars, doc, prefix, suffix, isWrapped,
                   selected, pathInput, valueInput, path, newText, picked,
                   dismissed, editCalls, editApplied, revealed, statusShown>>

Invoke == InvokeThen(AfterLanguageCheck)

\* The user answers "Continue anyway?" or dismisses it.
ConfirmLanguageThen(go) ==
    /\ mode = "cmd"
    /\ pc = "confirmLanguage"
    /\ \E proceed \in {"Yes", "No", "undefined"} :
          LET stop == ProceedAborts(proceed)
          IN  /\ dismissed' = (proceed # "Yes")
              /\ originalText' = IF stop THEN originalText ELSE go.originalText
              /\ text' = IF stop THEN text ELSE go.text
              /\ variables' = IF stop THEN variables ELSE go.variables
              /\ errors' = IF stop THEN errors ELSE go.errors
              /\ pc' = IF stop THEN "done" ELSE go.pc
    /\ UNCHANGED <<mode, parseVars, hostVars, doc, prefix, suffix, isWrapped,
                   selected, pathInput, valueInput, path, newText, picked,
                   editCalls, editApplied, revealed, statusShown>>

ConfirmLanguage == ConfirmLanguageThen(AfterLanguageCheck)

\* The user picks an entry of the candidate list (choice > 0) or
\* dismisses it (choice = 0); the entry's label is looked up by name.
PickVariable ==
    /\ mode = "cmd"
    /\ pc = "pickVariable"
    /\ \E choice \in 0..Len(variables) :
          LET variableName == IF choice = 0 THEN <<>> ELSE variables[choice].name
              stop == variableName = <<>>
              sel == FindByName(variables, variableName)
              go == ~stop /\ sel # 0
          IN  /\ picked' = choice
              /\ dismissed' = (dismissed \/ choice = 0)
              /\ errors' = IF ~stop /\ sel = 0
                           THEN <<"Selected variable not found.">> ELSE errors
              /\ selected' = IF go THEN sel ELSE selected
              /\ text' = IF go THEN variables[sel].json ELSE text
              /\ prefix' = IF go THEN Slice(originalText, 0, variables[sel].jsonStart)
                           ELSE prefix
              /\ suffix' = IF go THEN SliceFrom(originalText, variables[sel].jsonEnd)
                           ELSE suffix
              /\ isWrapped' = go
              /\ pc' = IF go THEN "pathPrompt" ELSE "done"
    /\ UNCHANGED <<mode, parseVars, hostVars, doc, originalText, variables,
                   pathInput, valueInput, path, newText, editCalls,
                   editApplied, revealed, statusShown>>

\* The user submits a path or dismisses the prompt.
PathPrompt ==
    /\ mode = "cmd"
    /\ pc = "pathPrompt"
    /\ \E input \in Answers(PathChoices) :
          /\ pathInput' = input
          /\ dismissed' = (dismissed \/ ~input.given)
          /\ pc' = IF PathInputMissing(input) THEN "done" ELSE "valuePrompt"
    /\ UNCHANGED <<mode, parseVars, hostVars, doc, originalText, text, prefix,
                   suffix, isWrapped, variables, selected, valueInput, path,
                   newText, picked, errors, editCalls, editApplied, revealed,
                   statusShown>>

\* What editor.edit is called with: the edit of txt, wrapped if a
\* candidate was selected.
NewText(txt, parsed, value) ==
    IF isWrapped
    THEN Wrap(prefix,
              ApplyEdits(txt, Modify(txt, parsed, value, detectFormattingOptions)),
              suffix)
    ELSE ApplyEdits(txt, Modify(txt, parsed, value, detectFormattingOptions))

\* After the value prompt, for the answer `input`, the parsed path, and
\* the original text orig: the handler stops on a dismissed prompt, on an
\* empty path, and when modify throws; otherwise the edits are computed
\* and applied, and editor.edit is called.
AfterValuePrompt(input, modifyThrows, parsed, orig) ==
    LET stop == ~input.given
        bad == ~stop /\ PathRejected(parsed)
        failed == ~stop /\ ~bad /\ modifyThrows
        go == ~stop /\ ~bad /\ ~failed
    IN  /\ valueInput' = input
        /\ dismissed' = (dismissed \/ ~input.given)
        /\ path' = IF stop THEN path ELSE parsed
        /\ errors' = IF bad THEN <<"Path could not be parsed.">>
                     ELSE IF failed THEN <<"Failed to compute edits">>
                     ELSE errors
        /\ originalText' = IF stop \/ bad THEN originalText ELSE orig
        /\ text' = IF stop \/ bad THEN text
                   ELSE IF version = "extension" THEN text ELSE InitialText(orig)
        /\ newText' = IF ~go THEN newText
                      ELSE NewText(IF version = "extension" THEN text
                                   ELSE InitialText(orig),
                                   parsed, coerceValue(input.value))
        /\ editCalls' = IF go THEN editCalls + 1 ELSE editCalls
        /\ pc' = IF go THEN "awaitEdit" ELSE "done"

\* The user submits a value or dismisses the prompt; then the path is
\* parsed, the edits are computed (modify may throw) and applied, the
\* result is wrapped, and editor.edit is called.
ValuePrompt ==
    /\ mode = "cmd"
    /\ pc = "valuePrompt"
    /\ \E input \in Answers(ValueChoices), modifyThrows \in BOOLEAN :
          AfterValuePrompt(input, modifyThrows, parsePath(pathInput.value),
                           IF version = "extension" THEN originalText
                           ELSE GetText(doc))
    /\ UNCHANGED <<mode, parseVars, hostVars, doc, prefix, suffix, isWrapped,
                   variables, selected, pathInput, picked, editApplied,
                   revealed, statusShown>>

\* The host runs the edit callback, which replaces the full range by
\* newText, and applies the edit or not: editor.edit resolves to that.
HostEdit ==
    /\ mode = "cmd"
    /\ pc = "awaitEdit"
    /\ \E applied \in BOOLEAN :
          /\ doc' = IF applied
                    THEN ReplaceRange(GetText(doc), FullRange(originalText), newText)
                    ELSE doc
          /\ editApplied' = IF applied THEN "yes" ELSE "no"
    /\ pc' = "afterEdit"
    /\ UNCHANGED <<mode, parseVars, hostVars, localVars, picked, dismissed,
                   errors, editCalls, revealed, statusShown>>

\* After the await: tryRevealPath, which moves the selection if it finds
\* the node, and the success notice.
AfterEdit ==
    /\ mode = "cmd"
    /\ pc = "afterEdit"
    /\ \E found \in BOOLEAN : revealed' = found
    /\ statusShown' = TRUE
    /\ pc' = "done"
    /\ UNCHANGED <<mode, parseVars, hostVars, doc, localVars, picked, dismissed,
                   errors, editCalls, editApplied>>

Next ==
    \/ Invoke
    \/ ConfirmLanguage
    \/ PickVariable
    \/ PathPrompt
    \/ ValuePrompt
    \/ HostEdit
    \/ AfterEdit

Spec == Init /\ [][Next]_vars

(***************************************************************************)
(* The inputs of parsePath: every string up to MaxPathLen over             *)
(* PathAlphabet, and a few longer paths.                                    *)
(***************************************************************************)
PathAlphabet == {"a", "0", ".", "[", "]", SQ, DQ, " "}

LongPaths ==
    { <<"[", SQ, "k", SQ, "]">>,
      <<"[", DQ, "k", DQ, "]">>,
      <<"[", "k", "]">>,
      <<".", "k">>,
      <<"a", ".", "b", "[", "0", "]", ".", "c">>,
      <<"a", ".", "b", "[", "1", "2">>,
      <<"a", "[", SQ, "x", ".", "k", SQ, "]", "[", "0", "7", "]">>,
      <<"p", ".", "[", "0", "]", ".", "t", "o", ".", "k">>,
      <<"a", "[", " ", "2", " ", "]", "b">> }

PathInputs == StringsUpTo(PathAlphabet, MaxPathLen) \cup LongPaths

InitParse ==
    /\ mode = "parse"
    /\ pin \in PathInputs
    /\ pout = <<>>
    /\ pdone = FALSE
    /\ CmdIdle

\* One call of parsePath.
ParsePathCall ==
    /\ mode = "parse"
    /\ ~pdone
    /\ pout' = parsePath(pin)
    /\ pdone' = TRUE
    /\ UNCHANGED <<mode, pin, cmdVars>>

NextParse == ParsePathCall

SpecParse == InitParse /\ [][NextParse]_vars

(***************************************************************************)
(* Properties of the command (checked under Spec).                         *)
(***************************************************************************)
\* C1: editor.edit is called at most once, and only if no prompt was
\* dismissed and no error message was shown; while it has not been called
\* and applied, the document is what it was.
C1_EditOnlyAfterEveryStep ==
    /\ editCalls <= 1
    /\ editCalls = 1 => (~dismissed /\ errors = <<>>)
    /\ (dismissed \/ errors # <<>>) => (editCalls = 0 /\ editApplied = "none")
    /\ editApplied # "yes" => doc = Raw(source)

\* The edit was called and applied after a confirmed language and a
\* picked candidate.
C1_Witness ==
    /\ editCalls = 1
    /\ editApplied = "yes"
    /\ doc # Raw(source)
    /\ ~RecognisedLanguage(version, languageId)

\* The value the handler passes to modify.
SubmittedValue == coerceValue(valueInput.value)

\* The text an applied edit of txt leaves between kept text a and b.
Edited(a, txt, b) ==
    [pre |-> a,
     mid |-> <<Modify(txt, path, SubmittedValue, detectFormattingOptions)>>,
     post |-> b]

\* C2: every candidate's offsets delimit its text in the source, and an
\* applied edit of the selected candidate leaves the source with exactly
\* the span [jsonStart, jsonEnd) replaced by the edit of the candidate's
\* text: what precedes jsonStart and what follows jsonEnd is kept.
C2_EmbeddedEditKeepsFrame ==
    /\ \A i \in 1..Len(variables) :
          /\ 0 <= variables[i].jsonStart
          /\ variables[i].jsonStart <= variables[i].jsonEnd
          /\ variables[i].jsonEnd <= Len(source)
          /\ Slice(source, variables[i].jsonStart, variables[i].jsonEnd)
                = variables[i].json
    /\ (isWrapped /\ editApplied = "yes") =>
          doc = Edited(Slice(source, 0, variables[selected].jsonStart),
                       Slice(source, variables[selected].jsonStart,
                             variables[selected].jsonEnd),
                       SliceFrom(source, variables[selected].jsonEnd))

\* An applied edit of a candidate with text before and after it.
C2_Witness ==
    /\ isWrapped
    /\ editApplied = "yes"
    /\ variables[selected].jsonStart > 0
    /\ variables[selected].jsonEnd < Len(source)
    /\ doc.pre # <<>>
    /\ doc.post # <<>>

\* The end of the run of digits starting at offset i.
RECURSIVE SkipDigits(_, _)
SkipDigits(s, i) ==
    IF i < Len(s) /\ IsDigit(s[i + 1]) THEN SkipDigits(s, i + 1) ELSE i

\* The offset after the JSON string starting at offset i, or -1.
JsonStringEnd(s, i) ==
    IF ~(i < Len(s) /\ s[i + 1] = DQ) THEN -1
    ELSE IF IndexOfChar(s, DQ, i + 1) = -1 THEN -1
    ELSE IndexOfChar(s, DQ, i + 1) + 1

\* The offset after the JSON value that starts at or after offset i behind
\* whitespace, or -1 if there is none; after the members of an object whose
\* first member starts at offset i; after the elements of an array whose
\* first element starts at offset i.
RECURSIVE JsonValueEnd(_, _), JsonMembersEnd(_, _), JsonElementsEnd(_, _)
JsonValueEnd(s, i0) ==
    LET i == SkipSpaces(s, i0)
        j == SkipSpaces(s, i + 1)
        d == SkipDigits(s, i)
    IN  IF i >= Len(s) THEN -1
        ELSE IF s[i + 1] = "{"
             THEN IF j < Len(s) /\ s[j + 1] = "}" THEN j + 1
                  ELSE JsonMembersEnd(s, j)
        ELSE IF s[i + 1] = "["
             THEN IF j < Len(s) /\ s[j + 1] = "]" THEN j + 1
                  ELSE JsonElementsEnd(s, j)
        ELSE IF s[i + 1] = DQ THEN JsonStringEnd(s, i)
        ELSE IF IsDigit(s[i + 1])
             THEN IF IsJsonNumber(Slice(s, i, d)) THEN d ELSE -1
        ELSE IF LiteralAt(s, i, <<"t", "r", "u", "e">>) THEN i + 4
        ELSE IF LiteralAt(s, i, <<"n", "u", "l", "l">>) THEN i + 4
        ELSE IF LiteralAt(s, i, <<"f", "a", "l", "s", "e">>) THEN i + 5
        ELSE -1

JsonMembersEnd(s, i) ==
    LET k == JsonStringEnd(s, i)
        c == SkipSpaces(s, k)
        v == JsonValueEnd(s, c + 1)
        e == SkipSpaces(s, v)
    IN  IF k = -1 THEN -1
        ELSE IF ~(c < Len(s) /\ s[c + 1] = ":") THEN -1
        ELSE IF v = -1 \/ e >= Len(s) THEN -1
        ELSE IF s[e + 1] = "}" THEN e + 1
        ELSE IF s[e + 1] = "," THEN JsonMembersEnd(s, SkipSpaces(s, e + 1))
        ELSE -1

JsonElementsEnd(s, i) ==
    LET v == JsonValueEnd(s, i)
        e == SkipSpaces(s, v)
    IN  IF v = -1 \/ e >= Len(s) THEN -1
        ELSE IF s[e + 1] = "]" THEN e + 1
        ELSE IF s[e + 1] = "," THEN JsonElementsEnd(s, e + 1)
        ELSE -1

\* t is the text of one JSON object and nothing else.
IsJsonObjectText(t) ==
    /\ Len(t) > 0
    /\ t[1] = "{"
    /\ JsonValueEnd(t, 0) # -1
    /\ SkipSpaces(t, JsonValueEnd(t, 0)) = Len(t)

\* C3: every candidate findJsonVariables returns has a text that parses
\* as a JSON object; a match whose text does not is left out.
C3_CandidatesParseAsJson ==
    \A i \in 1..Len(variables) : IsJsonObjectText(variables[i].json)

C6_WitnessSeparators ==
    /\ pathInput = Given(<<".", ".">>)
    /\ valueInput.given
    /\ errors = <<"Path could not be parsed.">>

\* C8: when the whole document is edited and it is empty or whitespace
\* only, the applied edit leaves exactly the edit of "{}": computed against
\* "{}", with nothing of the original text before or after it.
C8_BlankDocumentEditedAsEmptyObject ==
    (~isWrapped /\ Len(Trim(source)) = 0 /\ pc \in {"awaitEdit", "afterEdit", "done"}
        /\ editCalls = 1)
    => /\ newText = Edited(<<>>, <<"{", "}">>, <<>>)
       /\ editApplied = "yes" => doc = Edited(<<>>, <<"{", "}">>, <<>>)

\* A whitespace-only document has been edited.
C8_Witness ==
    /\ ~isWrapped
    /\ source = <<" ", "\n", " ">>
    /\ editApplied = "yes"
    /\ doc = Edited(<<>>, <<"{", "}">>, <<>>)

\* C9: the success notice is shown only after a successful edit: not after
\* a dismissed prompt or an error, and not when editor.edit resolved to
\* false.
C9_StatusOnlyAfterAppliedEdit ==
    statusShown => /\ editCalls = 1
                   /\ editApplied = "yes"
                   /\ errors = <<>>
                   /\ ~dismissed

\* C10: the names of the candidates are pairwise distinct, and the
\* candidate that is edited is the entry the user picked.
C10_PickedCandidateIsEdited ==
    isWrapped =>
        /\ \A i, j \in 1..Len(variables) :
              variables[i].name = variables[j].name => i = j
        /\ selected = picked

(***************************************************************************)
(* Properties of parsePath (checked under SpecParse).                      *)
(***************************************************************************)
HasChar(s, c) == \E i \in 1..Len(s) : s[i] = c

\* The keys of a string without "[": its runs between dots, trimmed, the
\* empty ones dropped.
RECURSIVE BareKeys(_)
BareKeys(s) ==
    IF Len(s) = 0 THEN <<>>
    ELSE LET dot == IndexOfChar(s, ".", 0)
             run == IF dot = -1 THEN s ELSE Slice(s, 0, dot)
             rest == IF dot = -1 THEN <<>> ELSE SliceFrom(s, dot + 1)
             key == Trim(run)
         IN  (IF Len(key) > 0 THEN <<KeyAcc(key)>> ELSE <<>>) \o BareKeys(rest)

\* t is wrapped in a matching pair of quotes: an opening and a closing one.
WrappedInQuotes(t) ==
    /\ Len(t) >= 2
    /\ t[1] \in {SQ, DQ}
    /\ t[Len(t)] = t[1]

\* The accessor a bracket segment with trimmed content t stands for.
SegmentAccessor(t) ==
    IF AllDigits(t) THEN IndexAcc(NumberOf(t))
    ELSE IF WrappedInQuotes(t) THEN KeyAcc(SubSeq(t, 2, Len(t) - 1))
    ELSE KeyAcc(t)

\* Some "[" of s has no "]" anywhere after it.
Unterminated(s) ==
    \E p \in 0..(Len(s) - 1) :
        /\ s[p + 1] = "["
        /\ \A q \in (p + 1)..(Len(s) - 1) : s[q + 1] # "]"

\* C4: the first bracket segment [c] of a path string, after bare keys
\* only, emits exactly one accessor: the index t if the trimmed content t is
\* all digits, else the text between the quotes if t is wrapped in a
\* matching pair of quotes, else the key t; and a path string without
\* brackets yields its trimmed non-empty bare runs as keys, never an index.
C4_BracketAndBareAccessors ==
    pdone =>
        /\ ~HasChar(pin, "[") => pout = BareKeys(pin)
        /\ \A p \in 0..(Len(pin) - 1) :
              LET close == IndexOfChar(pin, "]", p + 1)
                  before == Slice(pin, 0, p)
                  n == Len(BareKeys(before))
              IN  ( /\ pin[p + 1] = "["
                    /\ ~HasChar(before, "[")
                    /\ close # -1
                    /\ ~Unterminated(SliceFrom(pin, close + 1)) )
                  => /\ Len(pout) >= n + 1
                     /\ SubSeq(pout, 1, n) = BareKeys(before)
                     /\ pout[n + 1] = SegmentAccessor(Trim(Slice(pin, p + 1, close)))
                     /\ (close + 1 = Len(pin) => Len(pout) = n + 1)

\* C5: a path string holding a "[" with no "]" after it parses to the
\* empty Path, whatever was parsed before that bracket.
C5_UnterminatedBracketIsEmpty ==
    (pdone /\ Unterminated(pin)) => pout = <<>>

\* An unterminated bracket that follows accessors already parsed.
C5_Witness ==
    /\ pdone
    /\ pout = <<>>
    /\ \E p \in 0..(Len(pin) - 1) :
          /\ pin[p + 1] = "["
          /\ IndexOfChar(pin, "]", p + 1) = -1
          /\ Len(parsePath(Slice(pin, 0, p))) >= 2

\* A key that a bare run can spell.
CanWriteBare(k) ==
    /\ Len(k) > 0
    /\ Trim(k) = k
    /\ ~HasChar(k, ".")
    /\ ~HasChar(k, "[")

\* One accessor in the dotted/bracket notation: an index as [n], a key as
\* .key where a bare run can spell it and as ['key'] otherwise.
SerializeAccessor(acc) ==
    IF acc.kind = "index" THEN <<"[">> \o DigitsOf(acc.index) \o <<"]">>
    ELSE IF CanWriteBare(acc.key) THEN <<".">> \o acc.key
    ELSE <<"[", SQ>> \o acc.key \o <<SQ, "]">>

RECURSIVE SerializePath(_)
SerializePath(accs) ==
    IF Len(accs) = 0 THEN <<>>
    ELSE SerializeAccessor(Head(accs)) \o SerializePath(Tail(accs))

PlainKeys == {<<"a">>, <<"k">>}

\* The four spellings of the plain key k.
KeySpellings(k) ==
    { <<"[", SQ>> \o k \o <<SQ, "]">>,
      <<"[", DQ>> \o k \o <<DQ, "]">>,
      <<"[">> \o k \o <<"]">>,
      <<".">> \o k }

\* C7: parsing, re-serialising the accessors in the dotted/bracket
\* notation and parsing again gives the same accessors; ['k'], ["k"], [k]
\* and .k all parse to the one key accessor k.
C7_ParseSerializeParse ==
    pdone =>
        /\ parsePath(SerializePath(pout)) = pout
        /\ \A k \in PlainKeys : pin \in KeySpellings(k) => pout = <<KeyAcc(k)>>

\* A path with a key only brackets can spell, followed by an index written
\* with a leading zero: its serialisation differs from the input.
C7_Witness ==
    /\ pdone
    /\ \E i \in 1..Len(pout) : pout[i].kind = "key" /\ ~CanWriteBare(pout[i].key)
    /\ \E i \in 1..Len(pout) : pout[i].kind = "index" /\ pout[i].index > 0
    /\ SerializePath(pout) # pin
    /\ parsePath(SerializePath(pout)) = pout

\* A quoted spelling of a plain key has been parsed.
C7_WitnessQuoted ==
    /\ pdone
    /\ pin = <<"[", DQ, "k", DQ, "]">>
    /\ pout = <<KeyAcc(<<"k">>)>>

====
